---- MODULE Spec2Model ----
(***************************************************************************)
(* Model of powerservice/client.py: DataValidator (the four checks, the    *)
(* three projections), MapReduce.map_reduce, and the order in which        *)
(* PetroineosChallenge.process calls them on a batch.                      *)
(*                                                                         *)
(* Tables are sequences of records (one record per DataFrame row, in row   *)
(* order).  A string is a tuple of one-character strings, so that parsing  *)
(* and lexicographic comparison are computed and not assumed.  A pandas    *)
(* null (NaN / None) is the value NaN of the column's type.  A flag cell   *)
(* holds "True", "False" or "NaN".                                         *)
(***************************************************************************)
EXTENDS Integers, Sequences, FiniteSets

VARIABLES df, validated_df, valid_trades, trade_exceptions,
          data_quality_summary, aggregated_trades,
          input_timezone, output_timezone, pc,
          df_columns, validated_df_columns, valid_trades_columns,
          valid_trades_timestamp, revalidated,
          trades, trade_index, validated_trades_list, valid_trades_list,
          trade_exceptions_list

\* The argument and the loop of PetroineosChallenge.process: the batches,
\* how many of them the loop has handled, and the three lists it fills.
processVars == <<trades, trade_index, validated_trades_list, valid_trades_list,
                 trade_exceptions_list>>

\* The columns of the frames df, validated_df and valid_trades, in order;
\* valid_trades_timestamp holds the cells of the column 'timestamp' of
\* valid_trades once it has one.
frameVars == <<df_columns, validated_df_columns, valid_trades_columns,
               valid_trades_timestamp>>

vars == <<df, validated_df, valid_trades, trade_exceptions,
          data_quality_summary, aggregated_trades,
          input_timezone, output_timezone, pc, frameVars, revalidated,
          processVars>>

-----------------------------------------------------------------------------
(* Bounds of the model *)

MaxRows == 2

-----------------------------------------------------------------------------
(* Strings *)

\* The characters the model's strings are made of, in code-point order
\* ('0'..'9' < ':' < lower-case letters).
Alphabet == <<"0", "1", "2", "3", "4", "5", "6", "7", "8", "9", ":",
              "a", "n", "q", "w", "x", "y">>

Ord(c) == CHOOSE i \in 1..Len(Alphabet) : Alphabet[i] = c

Digits == {"0", "1", "2", "3", "4", "5", "6", "7", "8", "9"}

DigitVal(c) == Ord(c) - 1

DigitChar(n) == Alphabet[n + 1]

\* Python's str < str: code-point lexicographic order.
RECURSIVE StrLess(_, _)
StrLess(s, t) ==
    IF t = <<>> THEN FALSE
    ELSE IF s = <<>> THEN TRUE
    ELSE IF Ord(Head(s)) # Ord(Head(t)) THEN Ord(Head(s)) < Ord(Head(t))
    ELSE StrLess(Tail(s), Tail(t))

\* The null of the time column (a float NaN in an object column).
NaNTime == <<"NaN">>

\* The null of the id and date columns.
NaNId == "NaN"
NaNDate == <<0, 0, 0>>

\* Flag cells.
FlagOf(b) == IF b THEN "True" ELSE "False"

\* str(time_string): a string is itself, the float NaN prints as "nan".
PyStr(v) == IF v = NaNTime THEN <<"n", "a", "n">> ELSE v

-----------------------------------------------------------------------------
(* time.strptime(s, '%H:%M') *)

IsDigits(s) == \A i \in 1..Len(s) : s[i] \in Digits

IntOf(s) == IF Len(s) = 1 THEN DigitVal(s[1])
            ELSE 10 * DigitVal(s[1]) + DigitVal(s[2])

\* %H is the pattern 2[0-3]|[0-1]\d|\d
MatchesH(s) == /\ Len(s) \in {1, 2}
               /\ IsDigits(s)
               /\ Len(s) = 2 => IntOf(s) <= 23

\* %M is the pattern [0-5]\d|\d
MatchesM(s) == /\ Len(s) \in {1, 2}
               /\ IsDigits(s)
               /\ Len(s) = 2 => IntOf(s) <= 59

\* strptime raises ValueError unless the whole string is <%H>:<%M>.
StrptimeOk(s) ==
    \E k \in 1..Len(s) :
        /\ s[k] = ":"
        /\ MatchesH(SubSeq(s, 1, k - 1))
        /\ MatchesM(SubSeq(s, k + 1, Len(s)))

\* DataValidator._is_hh_mm_time
IsHhMmTime(time_string) == StrptimeOk(PyStr(time_string))

-----------------------------------------------------------------------------
(* The 5-minute grid: pd.date_range("00:00", "23:59", freq="5min")         *)
(* rendered with strftime("%H:%M")                                         *)

MinutesPerHour == 60
HoursPerDay == 24
RangeStartMinute == 0
RangeEndMinute == 1439
FreqMinutes == 5

MinutesPerDay == HoursPerDay * MinutesPerHour

\* strftime("%H:%M") of a minute of the day
StrftimeHM(m) ==
    LET h  == (m \div MinutesPerHour) % HoursPerDay
        mi == m % MinutesPerHour
    IN  <<DigitChar(h \div 10), DigitChar(h % 10), ":",
          DigitChar(mi \div 10), DigitChar(mi % 10)>>

\* The grid without its last mark (a right-open range).
DateRange5MinOpenEnd ==
    [i \in 1..((RangeEndMinute - RangeStartMinute) \div FreqMinutes) |->
        StrftimeHM(RangeStartMinute + (i - 1) * FreqMinutes)]

DateRange5Min ==
    [i \in 1..((RangeEndMinute - RangeStartMinute) \div FreqMinutes + 1) |->
        StrftimeHM(RangeStartMinute + (i - 1) * FreqMinutes)]

CanonicalTimes == {DateRange5Min[i] : i \in 1..Len(DateRange5Min)}

-----------------------------------------------------------------------------
(* Volumes: a number, a null, or a string that is not a number *)

Num(n) == [kind |-> "num", n |-> n]
NaNVolume == [kind |-> "nan", n |-> 0]
TextVolume == [kind |-> "str", n |-> 0]

\* pd.to_numeric(v, errors='coerce').isnull()
ToNumericIsNull(v) == v.kind # "num"

-----------------------------------------------------------------------------
(* DataValidator.validate and its four checks *)

\* validated_df['invalid_time_format'] = ~validated_df['time'].apply(...)
CheckInvalidTimeFormat(t) ==
    [i \in 1..Len(t) |->
        [date |-> t[i].date, time |-> t[i].time, volume |-> t[i].volume,
         id |-> t[i].id,
         invalid_time_format |-> FlagOf(~IsHhMmTime(t[i].time))]]

CheckInvalidVolume(t) ==
    [i \in 1..Len(t) |->
        [date |-> t[i].date, time |-> t[i].time, volume |-> t[i].volume,
         id |-> t[i].id,
         invalid_time_format |-> t[i].invalid_time_format,
         invalid_volume |-> FlagOf(ToNumericIsNull(t[i].volume))]]

\* The cell of column unexpected_time after the left merge on 'time' with
\* the grid frame (whose unexpected_time is False): NaN where no grid row
\* has the row's time.
MergedUnexpectedTime(time) ==
    IF time \in CanonicalTimes THEN "False" ELSE "NaN"

FillNa(cell, value) == IF cell = "NaN" THEN value ELSE cell

\* CheckUnexpectedTime with the unmatched rows filled with False.
CheckUnexpectedTimeFillFalse(t) ==
    [i \in 1..Len(t) |->
        [date |-> t[i].date, time |-> t[i].time, volume |-> t[i].volume,
         id |-> t[i].id,
         invalid_time_format |-> t[i].invalid_time_format,
         invalid_volume |-> t[i].invalid_volume,
         unexpected_time |-> FillNa(MergedUnexpectedTime(t[i].time), "False")]]

\* The grid's times are unique, so the left merge keeps every row once, in
\* order.
CheckUnexpectedTime(t) ==
    [i \in 1..Len(t) |->
        [date |-> t[i].date, time |-> t[i].time, volume |-> t[i].volume,
         id |-> t[i].id,
         invalid_time_format |-> t[i].invalid_time_format,
         invalid_volume |-> t[i].invalid_volume,
         unexpected_time |-> FillNa(MergedUnexpectedTime(t[i].time), "True")]]

\* A row of the left merge grid x validated_df for a grid time no row has.
UnmatchedSlotRow(time) ==
    [date |-> NaNDate, time |-> time, volume |-> NaNVolume, id |-> NaNId,
     invalid_time_format |-> "NaN", invalid_volume |-> "NaN",
     unexpected_time |-> "NaN", missing_time |-> "True"]

WithMissingTime(r, flag) ==
    [date |-> r.date, time |-> r.time, volume |-> r.volume, id |-> r.id,
     invalid_time_format |-> r.invalid_time_format,
     invalid_volume |-> r.invalid_volume,
     unexpected_time |-> r.unexpected_time, missing_time |-> flag]

\* The rows of t whose time is `time`, in order, as the merge lays them out.
MatchingRows(t, time) ==
    LET m == SelectSeq(t, LAMBDA r : r.time = time)
    IN  [i \in 1..Len(m) |-> WithMissingTime(m[i], "True")]

\* missing_time.merge(validated_df, how='left', on='time'), for the grid
\* rows lo..hi: grid order; each grid time with its matching rows, or with
\* one row of nulls.
RECURSIVE GridLeftMerge(_, _, _)
GridLeftMerge(t, lo, hi) ==
    IF lo > hi THEN <<>>
    ELSE IF lo = hi
         THEN LET m == MatchingRows(t, DateRange5Min[lo])
              IN  IF m = <<>> THEN <<UnmatchedSlotRow(DateRange5Min[lo])>> ELSE m
    ELSE LET mid == (lo + hi) \div 2
         IN  GridLeftMerge(t, lo, mid) \o GridLeftMerge(t, mid + 1, hi)

\* MissingRows without the filter on the null id: the merged rows that
\* matched are appended too.
MissingRowsUnfiltered(t) ==
    LET merged == GridLeftMerge(t, 1, Len(DateRange5Min))
    IN  [i \in 1..Len(merged) |->
            WithMissingTime(merged[i], FlagOf(merged[i].id = NaNId))]

\* temp_df['missing_time'] = temp_df['id'].isnull()
\* temp_df = temp_df[temp_df['id'].isnull()]
MissingRows(t) ==
    LET merged == GridLeftMerge(t, 1, Len(DateRange5Min))
        kept   == SelectSeq(merged, LAMBDA r : r.id = NaNId)
    IN  [i \in 1..Len(kept) |-> WithMissingTime(kept[i], FlagOf(kept[i].id = NaNId))]

\* .ffill() of the columns date and id, down the rows lo..hi; lastDate and
\* lastId are the last values seen above row lo.
RECURSIVE FFill(_, _, _, _, _)
FFill(t, lo, hi, lastDate, lastId) ==
    IF lo > hi THEN <<>>
    ELSE IF lo = hi
         THEN <<[t[lo] EXCEPT
                   !.date = IF t[lo].date = NaNDate THEN lastDate ELSE t[lo].date,
                   !.id   = IF t[lo].id = NaNId THEN lastId ELSE t[lo].id]>>
    ELSE LET mid  == (lo + hi) \div 2
             left == FFill(t, lo, mid, lastDate, lastId)
         IN  left \o FFill(t, mid + 1, hi, left[Len(left)].date, left[Len(left)].id)

\* CheckMissingTime without the forward fill of date and id.
CheckMissingTimeNoFFill(t) ==
    LET temp_df  == MissingRows(t)
        concat   == [i \in 1..Len(t) |-> WithMissingTime(t[i], "NaN")] \o temp_df
    IN  [i \in 1..Len(concat) |->
            [concat[i] EXCEPT !.missing_time = FillNa(@, "False")]]

\* CheckMissingTime with the frames concatenated the other way round:
\* pd.concat([temp_df, validated_df]).
CheckMissingTimeSwapped(t) ==
    LET temp_df  == MissingRows(t)
        concat   == temp_df \o [i \in 1..Len(t) |-> WithMissingTime(t[i], "NaN")]
        filled   == [i \in 1..Len(concat) |->
                        [concat[i] EXCEPT !.missing_time = FillNa(@, "False")]]
    IN  FFill(filled, 1, Len(filled), NaNDate, NaNId)

\* pd.concat([validated_df, temp_df]); the input rows have no missing_time
\* cell (NaN) until fillna(False).
CheckMissingTime(t) ==
    LET temp_df  == MissingRows(t)
        concat   == [i \in 1..Len(t) |-> WithMissingTime(t[i], "NaN")] \o temp_df
        filled   == [i \in 1..Len(concat) |->
                        [concat[i] EXCEPT !.missing_time = FillNa(@, "False")]]
    IN  FFill(filled, 1, Len(filled), NaNDate, NaNId)

Validate(t) ==
    CheckMissingTime(CheckUnexpectedTime(CheckInvalidVolume(CheckInvalidTimeFormat(t))))

-----------------------------------------------------------------------------
(* The columns of a frame through validate *)

\* pd.DataFrame(trade): the keys of the provider's mapping.
InputColumns == <<"date", "time", "volume", "id">>

HasColumn(cols, c) == \E i \in 1..Len(cols) : cols[i] = c

\* frame[c] = ... : a new column goes last, an existing one keeps its place.
SetColumn(cols, c) == IF HasColumn(cols, c) THEN cols ELSE Append(cols, c)

\* The names merge gives to a column that both frames have (suffixes
\* '_x' and '_y').
SuffixX(c) ==
    CASE c = "unexpected_time" -> "unexpected_time_x"
      [] c = "missing_time"    -> "missing_time_x"
      [] OTHER                 -> c

SuffixY(c) ==
    CASE c = "unexpected_time" -> "unexpected_time_y"
      [] c = "missing_time"    -> "missing_time_y"
      [] OTHER                 -> c

\* The columns of left.merge(right, on=key): the left ones, then the right
\* ones but the key; a column of both frames is there twice, suffixed.
MergeColumns(left, right, key) ==
    LET rest == SelectSeq(right, LAMBDA c : c # key)
    IN  [i \in 1..Len(left) |->
            IF left[i] # key /\ HasColumn(right, left[i])
            THEN SuffixX(left[i]) ELSE left[i]]
        \o
        [i \in 1..Len(rest) |->
            IF HasColumn(left, rest[i]) THEN SuffixY(rest[i]) ELSE rest[i]]

\* The columns of validated_df after the merge of _check_unexpected_time.
ColumnsAfterUnexpectedMerge(cols) ==
    MergeColumns(SetColumn(SetColumn(cols, "invalid_time_format"), "invalid_volume"),
                 <<"time", "unexpected_time">>, "time")

\* validated_df['unexpected_time'] raises KeyError when the merge left no
\* column of that name.
ValidateRaises(cols) ==
    ~HasColumn(ColumnsAfterUnexpectedMerge(cols), "unexpected_time")

\* The columns of the frame validate returns for a frame of columns cols
\* that has none of the flag columns.
ValidatedColumns(cols) ==
    SetColumn(ColumnsAfterUnexpectedMerge(cols), "missing_time")

\* validate(frame): what the call returns, or the exception it raises.
ValidateOutcome(cols, t) ==
    IF ValidateRaises(cols)
    THEN [status |-> "KeyError", columns |-> <<>>, rows |-> <<>>]
    ELSE [status |-> "returned", columns |-> ValidatedColumns(cols),
          rows |-> Validate(t)]

-----------------------------------------------------------------------------
(* The projections over a validated table *)

\* Series | Series in pandas: a null of the right operand counts as False;
\* a null of the left operand makes the result null, which is then cast to
\* False.
LogicalOr(l, r) ==
    LET rv  == FillNa(r, "False")
        res == IF l = "NaN" THEN "NaN" ELSE FlagOf(l = "True" \/ rv = "True")
    IN  FillNa(res, "False")

\* FlagMask with the first two operands swapped:
\* invalid_time_format | missing_time | unexpected_time | invalid_volume
FlagMaskSwapped(r) ==
    LogicalOr(LogicalOr(LogicalOr(r.invalid_time_format, r.missing_time),
                        r.unexpected_time),
              r.invalid_volume)

\* missing_time | invalid_time_format | unexpected_time | invalid_volume
FlagMask(r) ==
    LogicalOr(LogicalOr(LogicalOr(r.missing_time, r.invalid_time_format),
                        r.unexpected_time),
              r.invalid_volume)

get_valid_trades(t) == SelectSeq(t, LAMBDA r : FlagMask(r) # "True")

get_trade_exceptions(t) == SelectSeq(t, LAMBDA r : FlagMask(r) = "True")

\* groupby('id') leaves out the rows whose id is null.
GroupKeys(t) == {t[i].id : i \in 1..Len(t)} \ {NaNId}

\* 'count' instead of 'sum': the cells of the group that are not null.
FlagCount(t, id, flag) ==
    Cardinality({i \in 1..Len(t) : t[i].id = id /\ t[i][flag] # "NaN"})

\* 'sum' of a flag column over a group: nulls are skipped, True counts 1.
FlagSum(t, id, flag) ==
    Cardinality({i \in 1..Len(t) : t[i].id = id /\ t[i][flag] = "True"})

\* 'min' / 'max' of the time column over a group: nulls are skipped, strings
\* compare as strings.
StrMin(s, t) == IF s = NaNTime THEN t
                ELSE IF t = NaNTime THEN s
                ELSE IF StrLess(t, s) THEN t ELSE s

StrMax(s, t) == IF s = NaNTime THEN t
                ELSE IF t = NaNTime THEN s
                ELSE IF StrLess(s, t) THEN t ELSE s

RECURSIVE TimeMin(_, _, _, _)
TimeMin(t, id, lo, hi) ==
    IF lo > hi THEN NaNTime
    ELSE IF lo = hi THEN (IF t[lo].id = id THEN t[lo].time ELSE NaNTime)
    ELSE LET mid == (lo + hi) \div 2
         IN  StrMin(TimeMin(t, id, lo, mid), TimeMin(t, id, mid + 1, hi))

RECURSIVE TimeMax(_, _, _, _)
TimeMax(t, id, lo, hi) ==
    IF lo > hi THEN NaNTime
    ELSE IF lo = hi THEN (IF t[lo].id = id THEN t[lo].time ELSE NaNTime)
    ELSE LET mid == (lo + hi) \div 2
         IN  StrMax(TimeMax(t, id, lo, mid), TimeMax(t, id, mid + 1, hi))

get_data_quality_summary(t) ==
    [id \in GroupKeys(t) |->
        [missing_time_count        |-> FlagSum(t, id, "missing_time"),
         invalid_time_format_count |-> FlagSum(t, id, "invalid_time_format"),
         unexpected_time_count     |-> FlagSum(t, id, "unexpected_time"),
         invalid_volume_count      |-> FlagSum(t, id, "invalid_volume"),
         time_min                  |-> TimeMin(t, id, 1, Len(t)),
         time_max                  |-> TimeMax(t, id, 1, Len(t))]]

-----------------------------------------------------------------------------
(* MapReduce.map_reduce *)

\* The zones of the model and their UTC offsets, in minutes, on the dates of
\* the model (August).
Zones == {"Europe/London", "UTC", "Asia/Kolkata"}

UtcOffset(zone) ==
    CASE zone = "Europe/London" -> 60
      [] zone = "UTC"           -> 0
      [] zone = "Asia/Kolkata"  -> 330

\* Days of the year before the first of each month (2022).
DaysBeforeMonth == <<0, 31, 59, 90, 120, 151, 181, 212, 243, 273, 304, 334>>

\* pd.to_datetime('<date> <time>', dayfirst=True) as minutes of wall-clock
\* time since the start of the year; date is <<dd, mm, yyyy>>.
ToDatetime(date, time) ==
    LET day    == date[1]
        month  == date[2]
        hour   == IntOf(SubSeq(time, 1, 2))
        minute == IntOf(SubSeq(time, 4, 5))
    IN  (DaysBeforeMonth[month] + day - 1) * MinutesPerDay
        + hour * MinutesPerHour + minute

\* valid_trades_df['timestamp'] = pd.to_datetime(...).dt.tz_localize(zone):
\* the cells of the new column, one per row.
TimestampColumn(t, inZone) ==
    [i \in 1..Len(t) |->
        [wall |-> ToDatetime(t[i].date, t[i].time), zone |-> inZone]]

GrouperFreqMinutes == 60

\* The bin (its start, in wall-clock minutes of the input zone) of a row.
BinOf(ts) == (ts \div GrouperFreqMinutes) * GrouperFreqMinutes

\* GrouperBins without the bin of the last row (a right-open range).
GrouperBinsOpenEnd(stamps) ==
    IF stamps = {} THEN <<>>
    ELSE LET first == BinOf(CHOOSE x \in stamps : \A y \in stamps : x <= y)
             last  == BinOf(CHOOSE x \in stamps : \A y \in stamps : x >= y)
         IN  [k \in 1..((last - first) \div GrouperFreqMinutes) |->
                 first + (k - 1) * GrouperFreqMinutes]

\* groupby(pd.Grouper(freq='60Min')): the bins from the first row's to the
\* last row's, every GrouperFreqMinutes, in order.
GrouperBins(stamps) ==
    IF stamps = {} THEN <<>>
    ELSE LET first == BinOf(CHOOSE x \in stamps : \A y \in stamps : x <= y)
             last  == BinOf(CHOOSE x \in stamps : \A y \in stamps : x >= y)
         IN  [k \in 1..((last - first) \div GrouperFreqMinutes + 1) |->
                 first + (k - 1) * GrouperFreqMinutes]

\* ['volume'].sum() of the rows lo..hi that fall in the bin
RECURSIVE VolumeSum(_, _, _, _)
VolumeSum(t, bin, lo, hi) ==
    IF lo > hi THEN 0
    ELSE IF lo = hi
         THEN (IF BinOf(ToDatetime(t[lo].date, t[lo].time)) = bin
               THEN t[lo].volume.n ELSE 0)
    ELSE LET mid == (lo + hi) \div 2
         IN  VolumeSum(t, bin, lo, mid) + VolumeSum(t, bin, mid + 1, hi)

\* ConvertLabel with the timestamps taken as UTC, whatever the input zone.
ConvertLabelFromUtc(bin, inZone, outZone) ==
    StrftimeHM(bin + UtcOffset(outZone))

\* tz_localize(input) then tz_convert(output) then strftime("%H:%M")
ConvertLabel(bin, inZone, outZone) ==
    StrftimeHM(bin - UtcOffset(inZone) + UtcOffset(outZone))

\* The frame before the last projection: one row per bin, with its
\* timestamp (input-zone wall clock), volume, 'Local Time' and 'Volume'.
AggregatedFrame(t, inZone, outZone) ==
    LET bins == GrouperBins({ToDatetime(t[i].date, t[i].time) : i \in 1..Len(t)})
    IN  [k \in 1..Len(bins) |->
            [timestamp  |-> bins[k],
             volume     |-> VolumeSum(t, bins[k], 1, Len(t)),
             Local_Time |-> ConvertLabel(bins[k], inZone, outZone),
             Volume     |-> VolumeSum(t, bins[k], 1, Len(t))]]

\* aggregated_trades[['Local Time', 'Volume']]
map_reduce(t, inZone, outZone) ==
    LET f == AggregatedFrame(t, inZone, outZone)
    IN  [k \in 1..Len(f) |-> [Local_Time |-> f[k].Local_Time, Volume |-> f[k].Volume]]

-----------------------------------------------------------------------------
(* The inputs of the model *)

T0000 == <<"0", "0", ":", "0", "0">>
T0005 == <<"0", "0", ":", "0", "5">>
T0200 == <<"0", "2", ":", "0", "0">>
T0001 == <<"0", "0", ":", "0", "1">>
T2505 == <<"2", "5", ":", "0", "5">>
T105  == <<"1", ":", "0", "5">>
Txyqw == <<"x", "y", ":", "q", "w">>

TradeDate == <<1, 8, 2022>>

Row(date, time, volume, id) ==
    [date |-> date, time |-> time, volume |-> volume, id |-> id]

InputTimes == {T0000, T0005, T0200, T0001, T2505, T105, Txyqw, NaNTime}

InputRows ==
    {Row(TradeDate, t, Num(100), "a") : t \in InputTimes}
    \cup {Row(TradeDate, T0000, v, "a") : v \in {NaNVolume, TextVolume}}
    \cup {Row(TradeDate, T0000, Num(250), "b")}

RECURSIVE SeqsOf(_, _)
SeqsOf(S, n) ==
    IF n = 0 THEN {<<>>}
    ELSE LET shorter == SeqsOf(S, n - 1)
         IN  shorter \cup {Append(s, x) : s \in {q \in shorter : Len(q) = n - 1}, x \in S}

Batches == SeqsOf(InputRows, MaxRows)

-----------------------------------------------------------------------------
(* The state machine: PetroineosChallenge.process on one batch *)

Init ==
    /\ df \in Batches
    /\ validated_df = <<>>
    /\ valid_trades = <<>>
    /\ trade_exceptions = <<>>
    /\ data_quality_summary = <<>>
    /\ aggregated_trades = <<>>
    /\ input_timezone = "Europe/London"
    /\ output_timezone = "UTC"
    /\ pc = "validate"
    /\ df_columns = InputColumns
    /\ validated_df_columns = <<>>
    /\ valid_trades_columns = <<>>
    /\ valid_trades_timestamp = <<>>
    /\ revalidated = [status |-> "not called", columns |-> <<>>, rows |-> <<>>]
    /\ trades = <<df>>
    /\ trade_index = 0
    /\ validated_trades_list = <<>>
    /\ valid_trades_list = <<>>
    /\ trade_exceptions_list = <<>>

\* validate works on df.copy(): the caller's frame keeps its columns.
DoValidate ==
    /\ pc = "validate"
    /\ LET out == ValidateOutcome(df_columns, df)
       IN  /\ out.status = "returned"
           /\ validated_df' = out.rows
           /\ validated_df_columns' = out.columns
    /\ pc' = "get_valid_trades"
    /\ UNCHANGED <<processVars, df, valid_trades, trade_exceptions, data_quality_summary,
                   aggregated_trades, input_timezone, output_timezone,
                   df_columns, valid_trades_columns, valid_trades_timestamp,
                   revalidated>>

\* The rows of a validated frame that came from the input.
NonSynthesized(t) == SelectSeq(t, LAMBDA r : r.missing_time = "False")

\* A caller runs validate again, on the non-synthesized rows of a frame
\* validate returned.
DoRevalidate ==
    /\ pc = "get_valid_trades"
    /\ revalidated' = ValidateOutcome(validated_df_columns, NonSynthesized(validated_df))
    /\ pc' = "revalidated"
    /\ UNCHANGED <<processVars, df, validated_df, valid_trades, trade_exceptions,
                   data_quality_summary, aggregated_trades, input_timezone,
                   output_timezone, frameVars>>

DoGetValidTrades ==
    /\ pc = "get_valid_trades"
    /\ valid_trades' = get_valid_trades(validated_df)
    /\ valid_trades_columns' = validated_df_columns
    /\ pc' = "get_trade_exceptions"
    /\ UNCHANGED <<processVars, df, validated_df, trade_exceptions, data_quality_summary,
                   aggregated_trades, input_timezone, output_timezone,
                   df_columns, validated_df_columns, valid_trades_timestamp,
                   revalidated>>

DoGetTradeExceptions ==
    /\ pc = "get_trade_exceptions"
    /\ trade_exceptions' = get_trade_exceptions(validated_df)
    /\ pc' = "get_data_quality_summary"
    /\ UNCHANGED <<processVars, df, validated_df, valid_trades, data_quality_summary,
                   aggregated_trades, input_timezone, output_timezone,
                   frameVars, revalidated>>

DoGetDataQualitySummary ==
    /\ pc = "get_data_quality_summary"
    /\ data_quality_summary' = get_data_quality_summary(validated_df)
    /\ pc' = "map_reduce"
    /\ UNCHANGED <<processVars, df, validated_df, valid_trades, trade_exceptions,
                   aggregated_trades, input_timezone, output_timezone,
                   frameVars, revalidated>>

\* MapReduce(input_timezone, output_timezone).map_reduce(valid_trades_df);
\* its first statement assigns the column 'timestamp' of the frame it was
\* passed.
DoMapReduce ==
    /\ pc = "map_reduce"
    /\ \E inZone \in Zones, outZone \in Zones :
          /\ input_timezone' = inZone
          /\ output_timezone' = outZone
          /\ valid_trades_timestamp' = TimestampColumn(valid_trades, inZone)
          /\ aggregated_trades' = map_reduce(valid_trades, inZone, outZone)
    /\ valid_trades_columns' = SetColumn(valid_trades_columns, "timestamp")
    /\ pc' = "done"
    /\ UNCHANGED <<processVars, df, validated_df, valid_trades, trade_exceptions,
                   data_quality_summary, df_columns, validated_df_columns,
                   revalidated>>

Next ==
    \/ DoValidate
    \/ DoRevalidate
    \/ DoGetValidTrades
    \/ DoGetTradeExceptions
    \/ DoGetDataQualitySummary
    \/ DoMapReduce

Spec == Init /\ [][Next]_vars

-----------------------------------------------------------------------------
(* The state machine: PetroineosChallenge.process on a list of batches *)

ProcessIds == {"a", "b"}

ProcessTimes == {T0000, T0001}

\* The batches of one id (the provider gives each batch one id and one
\* date), and one batch whose rows have two ids.
BatchesOf(id) ==
    SeqsOf({Row(TradeDate, t, Num(100), id) : t \in ProcessTimes}, MaxRows)

MixedBatch == <<Row(TradeDate, T0000, Num(100), "a"),
                Row(TradeDate, T0000, Num(250), "b")>>

ProcessBatches == UNION {BatchesOf(id) : id \in ProcessIds} \cup {MixedBatch}

\* The lists of batches: no batch, one batch, or two batches of two
\* different ids (the provider gives every batch an id of its own).
TradeLists ==
    {<<>>}
    \cup {<<b>> : b \in ProcessBatches}
    \cup UNION {{<<b1, b2>> : b1 \in BatchesOf(p[1]), b2 \in BatchesOf(p[2])} :
                 p \in {q \in ProcessIds \X ProcessIds : q[1] # q[2]}}

\* pd.concat(list) of a non-empty list of frames.
RECURSIVE Concat(_)
Concat(list) ==
    IF list = <<>> THEN <<>> ELSE Head(list) \o Concat(Tail(list))

InitProcess ==
    /\ trades \in TradeLists
    /\ trade_index = 0
    /\ validated_trades_list = <<>>
    /\ valid_trades_list = <<>>
    /\ trade_exceptions_list = <<>>
    /\ df = <<>>
    /\ validated_df = <<>>
    /\ valid_trades = <<>>
    /\ trade_exceptions = <<>>
    /\ data_quality_summary = <<>>
    /\ aggregated_trades = <<>>
    /\ input_timezone = "Europe/London"
    /\ output_timezone = "UTC"
    /\ pc = "for trade in trades"
    /\ df_columns = InputColumns
    /\ validated_df_columns = <<>>
    /\ valid_trades_columns = <<>>
    /\ valid_trades_timestamp = <<>>
    /\ revalidated = [status |-> "not called", columns |-> <<>>, rows |-> <<>>]

\* One pass of the loop: validate the batch and append the three frames.
ProcessTrade ==
    /\ pc = "for trade in trades"
    /\ trade_index < Len(trades)
    /\ LET trade_df == trades[trade_index + 1]
           out      == ValidateOutcome(InputColumns, trade_df)
       IN  /\ out.status = "returned"
           /\ df' = trade_df
           /\ validated_trades_list' = Append(validated_trades_list, out.rows)
           /\ valid_trades_list' =
                 Append(valid_trades_list, get_valid_trades(out.rows))
           /\ trade_exceptions_list' =
                 Append(trade_exceptions_list, get_trade_exceptions(out.rows))
           /\ validated_df_columns' = out.columns
    /\ trade_index' = trade_index + 1
    /\ UNCHANGED <<trades, validated_df, valid_trades, trade_exceptions,
                   data_quality_summary, aggregated_trades, input_timezone,
                   output_timezone, pc, df_columns, valid_trades_columns,
                   valid_trades_timestamp, revalidated>>

\* The three pd.concat calls after the loop.
ConcatResults ==
    /\ pc = "for trade in trades"
    /\ trade_index = Len(trades)
    /\ Len(trades) > 0
    /\ valid_trades' = Concat(valid_trades_list)
    /\ trade_exceptions' = Concat(trade_exceptions_list)
    /\ validated_df' = Concat(validated_trades_list)
    /\ valid_trades_columns' = validated_df_columns
    /\ pc' = "get_data_quality_summary"
    /\ UNCHANGED <<processVars, df, data_quality_summary, aggregated_trades,
                   input_timezone, output_timezone, df_columns,
                   validated_df_columns, valid_trades_timestamp, revalidated>>

\* pd.concat of an empty list raises ValueError.
ConcatRaises ==
    /\ pc = "for trade in trades"
    /\ trade_index = Len(trades)
    /\ Len(trades) = 0
    /\ pc' = "ValueError"
    /\ UNCHANGED <<processVars, df, validated_df, valid_trades,
                   trade_exceptions, data_quality_summary, aggregated_trades,
                   input_timezone, output_timezone, frameVars, revalidated>>

\* self._map_reduce.map_reduce(valid_trades_df), with the zones the
\* MapReduce object was built with.
Aggregate ==
    /\ pc = "map_reduce"
    /\ aggregated_trades' = map_reduce(valid_trades, input_timezone, output_timezone)
    /\ valid_trades_timestamp' = TimestampColumn(valid_trades, input_timezone)
    /\ valid_trades_columns' = SetColumn(valid_trades_columns, "timestamp")
    /\ pc' = "save_results"
    /\ UNCHANGED <<processVars, df, validated_df, valid_trades,
                   trade_exceptions, data_quality_summary, input_timezone,
                   output_timezone, df_columns, validated_df_columns,
                   revalidated>>

\* save_results writes the three tables and process returns them.
SaveResults ==
    /\ pc = "save_results"
    /\ pc' = "returned"
    /\ UNCHANGED <<processVars, df, validated_df, valid_trades,
                   trade_exceptions, data_quality_summary, aggregated_trades,
                   input_timezone, output_timezone, frameVars, revalidated>>

NextProcess ==
    \/ ProcessTrade
    \/ ConcatResults
    \/ ConcatRaises
    \/ DoGetDataQualitySummary
    \/ Aggregate
    \/ SaveResults

SpecProcess == InitProcess /\ [][NextProcess]_vars

-----------------------------------------------------------------------------
(* Properties *)

\* The state right after validate(df) returned.
Validated == pc = "get_valid_trades"

\* The rows validate appended after the rows of df.
AppendedRows == SubSeq(validated_df, Len(df) + 1, Len(validated_df))

TimesOf(t) == {t[i].time : i \in 1..Len(t)}

\* "HH:MM" read strictly: two digits, a colon, two digits, 00-23 and 00-59.
StrictHhMm(s) ==
    /\ Len(s) = 5
    /\ s[3] = ":"
    /\ \A i \in {1, 2, 4, 5} : s[i] \in Digits
    /\ 10 * DigitVal(s[1]) + DigitVal(s[2]) <= 23
    /\ 10 * DigitVal(s[4]) + DigitVal(s[5]) <= 59

\* One of the 288 slots: a strict "HH:MM" on a 5-minute mark.
IsSlot(s) == StrictHhMm(s) /\ DigitVal(s[5]) % 5 = 0

\* The 288 slots, written out from hours and minutes.
Slots ==
    {<<DigitChar(h \div 10), DigitChar(h % 10), ":",
       DigitChar(m \div 10), DigitChar(m % 10)>> :
        h \in 0..23, m \in {5 * k : k \in 0..11}}

\* C1: after validate, for every one of the 288 slots there is exactly one
\* appended row with missing_time = True for it if no input row has that
\* slot as its time, and none if some input row has it (however many);
\* every row that came from the input has missing_time = False.
C1_MissingIffAbsent ==
    Validated =>
        LET absent == Slots \ TimesOf(df)
        IN  /\ \A i \in 1..Len(df) : validated_df[i].missing_time = "False"
            /\ \A j \in 1..Len(AppendedRows) :
                  AppendedRows[j].missing_time = "True"
            /\ TimesOf(AppendedRows) = absent
            /\ Len(AppendedRows) = Cardinality(absent)

\* A batch with the slot 00:00 twice: 287 rows are appended.
C1_Witness ==
    /\ Validated
    /\ Len(df) = 2
    /\ df[1].time = T0000
    /\ df[2].time = T0000
    /\ Len(AppendedRows) = 287
    /\ T0000 \notin TimesOf(AppendedRows)

\* C2: the output of validate begins with the input rows, in input order,
\* with the same id, date, time and volume; every row after them is a
\* synthesized one, and no synthesized row is among them.
C2_InputRowsKept ==
    Validated =>
        /\ Len(validated_df) >= Len(df)
        /\ \A i \in 1..Len(df) :
              /\ validated_df[i].id = df[i].id
              /\ validated_df[i].date = df[i].date
              /\ validated_df[i].time = df[i].time
              /\ validated_df[i].volume = df[i].volume
              /\ validated_df[i].missing_time # "True"
        /\ \A i \in (Len(df) + 1)..Len(validated_df) :
              /\ validated_df[i].missing_time = "True"
              /\ validated_df[i].volume = NaNVolume

\* Two different input rows, the later slot first: the order is kept.
C2_Witness ==
    /\ Validated
    /\ Len(df) = 2
    /\ df[1].time = T0200
    /\ df[2].time = T0000
    /\ df[1].id # df[2].id
    /\ validated_df[1].time = T0200
    /\ Len(validated_df) = 288

FlagNames == {"invalid_time_format", "invalid_volume", "unexpected_time",
              "missing_time"}

AllFlagsFalse(r) == \A f \in FlagNames : r[f] = "False"

SomeFlagTrue(r) == \E f \in FlagNames : r[f] = "True"

\* The state after both get_valid_trades and get_trade_exceptions returned.
Projected == pc \in {"get_data_quality_summary", "map_reduce", "done"}

\* C3: for the validated table (synthesized rows included), get_valid_trades
\* holds exactly the rows whose four flags are all false, in order,
\* get_trade_exceptions exactly the rows with at least one flag true, and
\* every row of the table is in exactly one of the two.
C3_Partition ==
    Projected =>
        /\ valid_trades = SelectSeq(validated_df, AllFlagsFalse)
        /\ trade_exceptions = SelectSeq(validated_df, SomeFlagTrue)
        /\ \A i \in 1..Len(validated_df) :
              AllFlagsFalse(validated_df[i]) # SomeFlagTrue(validated_df[i])
        /\ Len(valid_trades) + Len(trade_exceptions) = Len(validated_df)

\* A table with one clean row, one flagged input row and synthesized rows
\* (whose three other flags are null).
C3_Witness ==
    /\ Projected
    /\ Len(valid_trades) = 1
    /\ Len(trade_exceptions) = 288
    /\ trade_exceptions[1].missing_time = "False"
    /\ trade_exceptions[288].missing_time = "True"
    /\ trade_exceptions[288].invalid_volume = "NaN"

\* The state after map_reduce returned.
Done == pc = "done"

\* The hour of the year (input-zone wall clock) a valid row falls in.
HourOf(r) ==
    LET h == 10 * DigitVal(r.time[1]) + DigitVal(r.time[2])
    IN  (DaysBeforeMonth[r.date[2]] + r.date[1] - 1) * 24 + h

NonEmptyHours == {HourOf(valid_trades[i]) : i \in 1..Len(valid_trades)}

RowsInHour(h) == {i \in 1..Len(valid_trades) : HourOf(valid_trades[i]) = h}

RECURSIVE SumVolumes(_)
SumVolumes(I) ==
    IF I = {} THEN 0
    ELSE LET i == CHOOSE j \in I : TRUE
         IN  valid_trades[i].volume.n + SumVolumes(I \ {i})

RECURSIVE SumOutput(_)
SumOutput(k) ==
    IF k = 0 THEN 0 ELSE aggregated_trades[k].Volume + SumOutput(k - 1)

\* C4: map_reduce returns one row per hour that holds an input row and no
\* row for an hour that holds none.
C4_OneRowPerNonEmptyHour ==
    Done => Len(aggregated_trades) = Cardinality(NonEmptyHours)

\* "HH:MM" of the hour h of the year, moved from inZone to outZone.
LabelOfHour(h, inZone, outZone) ==
    LET m  == (h * 60 - UtcOffset(inZone) + UtcOffset(outZone)) % 1440
        hh == m \div 60
        mm == m % 60
    IN  <<DigitChar(hh \div 10), DigitChar(hh % 10), ":",
          DigitChar(mm \div 10), DigitChar(mm % 10)>>

\* C5: the rows map_reduce returns follow the chronological order of
\* input-zone hours (row k is hour h0 + k - 1 for some first hour h0, and
\* every hour holding an input row is among them); a row's Volume is the sum
\* of the volumes of all input rows of its hour, of any id, and its
\* Local Time is the start of that hour moved to the output zone, as HH:MM.
C5_HourOrderSumAndLabel ==
    Done =>
        \/ valid_trades = <<>> /\ aggregated_trades = <<>>
        \/ \E h0 \in NonEmptyHours :
              /\ \A h \in NonEmptyHours :
                    h >= h0 /\ h - h0 + 1 <= Len(aggregated_trades)
              /\ \A k \in 1..Len(aggregated_trades) :
                    /\ aggregated_trades[k].Volume = SumVolumes(RowsInHour(h0 + k - 1))
                    /\ aggregated_trades[k].Local_Time =
                          LabelOfHour(h0 + k - 1, input_timezone, output_timezone)

\* London to UTC, a row at 02:00 followed by a row of another id at 00:00:
\* the 00:00 hour is labelled 23:00 and comes before the row labelled 00:00.
C5_Witness ==
    /\ Done
    /\ input_timezone = "Europe/London"
    /\ output_timezone = "UTC"
    /\ Len(valid_trades) = 2
    /\ valid_trades[1].time = T0200
    /\ valid_trades[1].id # valid_trades[2].id
    /\ Len(aggregated_trades) = 3
    /\ aggregated_trades[1] = [Local_Time |-> <<"2", "3", ":", "0", "0">>, Volume |-> 250]
    /\ aggregated_trades[2].Local_Time = T0000
    /\ aggregated_trades[3].Volume = 100

\* C6: the Volume cells of the rows map_reduce returns add up to the volume
\* cells of the rows passed in, for every pair of zones.
C6_VolumeConserved ==
    Done => SumOutput(Len(aggregated_trades)) = SumVolumes(1..Len(valid_trades))

\* Rows in two different hours, converted from UTC to Asia/Kolkata.
C6_Witness ==
    /\ Done
    /\ input_timezone = "UTC"
    /\ output_timezone = "Asia/Kolkata"
    /\ Cardinality(NonEmptyHours) = 2
    /\ SumOutput(Len(aggregated_trades)) = 350

CountTime(t, time) == Cardinality({i \in 1..Len(t) : t[i].time = time})

CountMissing(t) == Cardinality({i \in 1..Len(t) : t[i].missing_time = "True"})

\* C7 as stated: every one of the 288 slots appears exactly once among the
\* rows of validate(batch), and the number of distinct slots among the input
\* rows is 288 minus the number of missing_time = True rows.
C7_EverySlotExactlyOnce ==
    Validated =>
        /\ \A s \in Slots : CountTime(validated_df, s) = 1
        /\ Cardinality(TimesOf(df) \cap Slots) = 288 - CountMissing(validated_df)

\* C7 amended: every one of the 288 slots appears at least once among the
\* rows of validate(batch): once if at most one input row has it, and once
\* per input row if several have it; the number of distinct slots among the
\* input rows is 288 minus the number of missing_time = True rows.
C7_EverySlotPresent ==
    Validated =>
        /\ \A s \in Slots :
              CountTime(validated_df, s) =
                 IF CountTime(df, s) = 0 THEN 1 ELSE CountTime(df, s)
        /\ Cardinality(TimesOf(df) \cap Slots) = 288 - CountMissing(validated_df)

\* The slot 00:00 twice in the input: it is twice in the output, and 287
\* rows are missing.
C7_Witness ==
    /\ Validated
    /\ CountTime(df, T0000) = 2
    /\ CountTime(validated_df, T0000) = 2
    /\ CountMissing(validated_df) = 287

\* The state after get_data_quality_summary returned.
Summarised == pc = "map_reduce"

\* s < t as strings, by the first position where they differ.
LexLess(s, t) ==
    \E k \in 1..(Len(t)) :
        /\ \A j \in 1..(k - 1) : j <= Len(s) /\ s[j] = t[j]
        /\ \/ k = Len(s) + 1
           \/ k <= Len(s) /\ Ord(s[k]) < Ord(t[k])

GroupRows(id) == {i \in 1..Len(validated_df) : validated_df[i].id = id}

GroupTimes(id) == {validated_df[i].time : i \in GroupRows(id)} \ {NaNTime}

TrueCount(id, flag) ==
    Cardinality({i \in GroupRows(id) : validated_df[i][flag] = "True"})

\* C8: the summary has one row per id of the validated table; its four
\* counts are the numbers of rows of that id with the flag true; time_min
\* and time_max are the least and greatest of that id's time strings in
\* string order, malformed strings included.
C8_SummaryPerId ==
    Summarised =>
        /\ DOMAIN data_quality_summary =
              {validated_df[i].id : i \in 1..Len(validated_df)} \ {NaNId}
        /\ \A id \in DOMAIN data_quality_summary :
              LET row == data_quality_summary[id]
                  T   == GroupTimes(id)
              IN  /\ row.missing_time_count = TrueCount(id, "missing_time")
                  /\ row.invalid_time_format_count = TrueCount(id, "invalid_time_format")
                  /\ row.unexpected_time_count = TrueCount(id, "unexpected_time")
                  /\ row.invalid_volume_count = TrueCount(id, "invalid_volume")
                  /\ IF T = {} THEN row.time_min = NaNTime /\ row.time_max = NaNTime
                     ELSE /\ row.time_min \in T
                          /\ row.time_max \in T
                          /\ \A t \in T : ~LexLess(t, row.time_min)
                          /\ \A t \in T : ~LexLess(row.time_max, t)

\* Two ids; the rows of id "a" are "25:05" and the synthesized ones: its
\* time_max is the malformed "25:05", after "23:55".
C8_Witness ==
    /\ Summarised
    /\ DOMAIN data_quality_summary = {"a", "b"}
    /\ df[2].time = T2505
    /\ data_quality_summary["a"].time_max = T2505
    /\ data_quality_summary["a"].time_min = T0005
    /\ data_quality_summary["a"].invalid_time_format_count = 1
    /\ data_quality_summary["a"].missing_time_count = 287
    /\ data_quality_summary["b"].missing_time_count = 0
    /\ data_quality_summary["b"].time_max = T0000

\* C9: for every input row, invalid_time_format is False exactly when the
\* time is a strict "HH:MM": two digits 00-23, a colon, two digits 00-59.
C9_StrictTimeFormat ==
    Validated =>
        \A i \in 1..Len(df) :
            (validated_df[i].invalid_time_format = "False")
                <=> StrictHhMm(PyStr(df[i].time))

\* C10: for every input row, unexpected_time is True exactly when the time
\* string is not one of the 288 slots, and a row with invalid_time_format
\* True has unexpected_time True.
C10_UnexpectedIffOffGrid ==
    Validated =>
        \A i \in 1..Len(df) :
            /\ validated_df[i].unexpected_time \in {"True", "False"}
            /\ (validated_df[i].unexpected_time = "True") <=> ~IsSlot(df[i].time)
            /\ validated_df[i].invalid_time_format = "True"
                  => validated_df[i].unexpected_time = "True"

\* "25:05" sets both flags, "00:01" sets unexpected_time only.
C10_Witness ==
    /\ Validated
    /\ Len(df) = 2
    /\ df[1].time = T2505
    /\ validated_df[1].invalid_time_format = "True"
    /\ validated_df[1].unexpected_time = "True"
    /\ df[2].time = T0001
    /\ validated_df[2].invalid_time_format = "False"
    /\ validated_df[2].unexpected_time = "True"

\* The state after the second validate call ended.
Revalidated == pc = "revalidated"

\* C11: validate run again on the non-synthesized rows of its own output
\* returns, and gives each of those rows the four flag values of the first
\* run.
C11_RevalidateSameFlags ==
    Revalidated =>
        /\ revalidated.status = "returned"
        /\ Len(revalidated.rows) >= Len(df)
        /\ \A i \in 1..Len(df) :
              \A f \in FlagNames : revalidated.rows[i][f] = validated_df[i][f]

\* C13: validate and map_reduce leave the frame they were passed as it
\* was: the same rows, the same columns and the same values after the call
\* as before it.
C13_InputFramesUntouched ==
    [][/\ DoValidate => df' = df /\ df_columns' = df_columns
       /\ DoMapReduce => /\ valid_trades' = valid_trades
                         /\ valid_trades_columns' = valid_trades_columns
                         /\ valid_trades_timestamp' = valid_trades_timestamp]_vars

\* The state after process built the summary of all batches.
ProcessSummarised == pc \in {"map_reduce", "save_results", "returned"}

\* A non-empty batch whose rows share one id and one date.
Homogeneous(batch) ==
    /\ batch # <<>>
    /\ \A i \in 1..Len(batch) :
          batch[i].id = batch[1].id /\ batch[i].date = batch[1].date

IdsOfBatch(batch) == {batch[i].id : i \in 1..Len(batch)}

\* C12: in process, the synthesized rows of a non-empty batch of one id and
\* one date all carry that id and that date, and the summary's
\* missing_time_count of that id is 288 minus the number of distinct slots
\* among the batch's times.
C12_MissingRowsCarryBatchId ==
    ProcessSummarised =>
        \A k \in 1..Len(trades) :
            Homogeneous(trades[k]) =>
                LET batch == trades[k]
                    out   == validated_trades_list[k]
                IN  /\ \A i \in 1..Len(out) :
                          out[i].missing_time = "True" =>
                              /\ out[i].id = batch[1].id
                              /\ out[i].date = batch[1].date
                    /\ (\A j \in 1..Len(trades) :
                           j # k => batch[1].id \notin IdsOfBatch(trades[j]))
                          => /\ batch[1].id \in DOMAIN data_quality_summary
                             /\ data_quality_summary[batch[1].id].missing_time_count
                                   = 288 - Cardinality(TimesOf(batch) \cap Slots)

\* Two batches, of id "a" then of id "b", with different numbers of slots:
\* each id's count is that of its own batch.
C12_Witness ==
    /\ ProcessSummarised
    /\ Len(trades) = 2
    /\ IdsOfBatch(trades[1]) = {"a"}
    /\ IdsOfBatch(trades[2]) = {"b"}
    /\ TimesOf(trades[1]) = {T0001}
    /\ TimesOf(trades[2]) = {T0000}
    /\ data_quality_summary["a"].missing_time_count = 288
    /\ data_quality_summary["b"].missing_time_count = 287
    /\ validated_trades_list[1][Len(trades[1]) + 1].id = "a"
    /\ validated_trades_list[2][Len(trades[2]) + 1].id = "b"

====
